---- MODULE Spec2Model ----
(***************************************************************************)
(* State-machine model of the game memory store (backend/memory_store.py), *)
(* of the agent that reads and writes it (backend/game_agent.py), of the   *)
(* HTTP handler in front of the agent (backend/main.py), of the dice       *)
(* roller (backend/tools.py) and of the game states (backend/database.py). *)
(*                                                                         *)
(* The specifications share the variables:                                 *)
(*   Spec      every call of the store's API runs to completion before the *)
(*             next one starts (the FastAPI handlers are `async def` and   *)
(*             call the synchronous agent on the event loop);              *)
(*   SpecConc  calls made from several threads interleave at the points    *)
(*             where the Python code touches the Chroma client;            *)
(*   SpecAgent generate_scene and respond, one turn at a time;             *)
(*   SpecHang  a turn whose retrievals return, raise or never return;      *)
(*   SpecRag   the retriever of get_combined_retriever;                    *)
(*   SpecApi   POST /generate-scene over successive runs of the process;   *)
(*   SpecDice  roll_dice applied to a notation;                            *)
(*   SpecDb    init_db, save_game and load_game.                           *)
(***************************************************************************)
EXTENDS Integers, Sequences, FiniteSets, TLC

VARIABLES
    collections,  \* the persisted Chroma collections: kind -> sequence of records
    live,         \* kind -> whether self.<kind>_store refers to an existing collection
    last,         \* the last completed call and what it returned or raised (Spec)
    th,           \* the calls in progress, one per thread (SpecConc)
    agent,        \* the GameMasterAgent: its session id and the call it is in
    db            \* the SQLite file of database.py: the game_states table (SpecDb)

vars == <<collections, live, last, th, agent, db>>

(* ------------------------------ bounds -------------------------------- *)

\* Largest number of records held over the four collections together.
MaxRecords == 2

\* Threads that call the store at the same time in SpecConc.
Threads == {"T1", "T2"}

(* --------------------------- Python values ---------------------------- *)

\* Python's None where a string is expected.
None == "<None>"

\* An empty dict.
EmptyDict == [key \in {} |-> ""]

\* Python's None where a dict is expected.
NoneDict == [key \in {"<None>"} |-> "<None>"]

\* Truth value of an Optional[str]: None and "" are both falsy.
Truthy(s) == s # None /\ s # ""

\* dict.update: the entries of `other` replace those of `d` with the same key.
DictUpdate(d, other) ==
    [key \in DOMAIN d \cup DOMAIN other |->
        IF key \in DOMAIN other THEN other[key] ELSE d[key]]

\* `metadata or {}`
MetadataOrEmpty(metadata) ==
    IF metadata = NoneDict \/ DOMAIN metadata = {} THEN EmptyDict ELSE metadata

Min(a, b) == IF a <= b THEN a ELSE b

(* ------------------------- the four collections ----------------------- *)

\* The collection_type values clear_collection accepts.
Kinds == {"sessions", "npcs", "locations", "items"}

\* The prefix of a document id and the `type` metadata value of each kind.
TypeTag(kind) ==
    CASE kind = "sessions"  -> "session"
      [] kind = "npcs"      -> "npc"
      [] kind = "locations" -> "location"
      [] kind = "items"     -> "item"

\* The metadata key that holds the natural id of each kind.
IdKey(kind) == TypeTag(kind) \o "_id"

\* The metadata key that holds the natural name; sessions have none.
NameKey(kind) == TypeTag(kind) \o "_name"

HasName(kind) == kind # "sessions"

(* ------------------------------ inputs -------------------------------- *)

\* Natural ids the callers save under (two entities; one id contains the
\* separator and a digit, to exercise the id format).
NaturalIds == {"a", "a_1"}

\* Natural names.
NaturalNames == {"x", "y"}

\* Stored contents.
Contents == {"t1", "t2"}

\* Contents saved per kind (the location and item methods repeat the npc ones
\* line for line and get one content).
ContentsOf(kind) == IF kind \in {"sessions", "npcs"} THEN Contents ELSE {"t1"}

\* Caller-supplied extra metadata: none, and a dict that itself carries a
\* `type` and the natural-key fields (as respond's "player_interaction").
ExtraMetadata(kind) ==
    { NoneDict,
      DictUpdate(("type" :> "player_interaction") @@ (IdKey(kind) :> "zz"),
                 IF HasName(kind) THEN (NameKey(kind) :> "zz") ELSE EmptyDict) }

\* Id and name filters a caller passes to retrieve_*_memories.
IdFilters == {None, "", "a"}
NameFilters == {None, "x"}

\* Query strings.
Queries == {"t1"}

\* Values of k.
Ks == {1, MaxRecords}

\* collection_type arguments of clear_collection, one of them undefined.
CollectionTypes == Kinds \cup {"quests"}

(* ---------------------- GameMasterAgent: inputs ----------------------- *)

\* Largest number of records over all collections in SpecAgent, and largest
\* number of turns the agent has saved.
MaxStored == 6
MaxTurns == 2

\* Prompts of generate_scene, player inputs of respond, and the texts the agent
\* executor answers with.
Prompts == {"t1"}
PlayerInputs == {"t1"}
Outputs == {"scene"}

\* Values str(uuid.uuid4()) takes as the `timestamp` of a saved scene.
Uuids == {"uuid-t"}

\* What a library call inside a save can raise ("none": it returns).
Faults == {"none", "EncoderUnavailable", "PersistenceFailure"}

\* k of _retrieve_relevant_memories: its default, used by generate_scene, and
\* the value respond passes.
SceneK == 5
RespondK == 3

\* f"Prompt: {prompt}\n\nGenerated Scene: {scene_text}"
SceneContent(prompt, scene_text) ==
    "Prompt: " \o prompt \o "\n\nGenerated Scene: " \o scene_text

\* f"Player: {player_input}\n\nGame Master: {response_text}"
InteractionContent(player_input, response_text) ==
    "Player: " \o player_input \o "\n\nGame Master: " \o response_text

\* metadata of _save_scene_to_memory
SceneMetadata(prompt, timestamp) ==
    ("prompt" :> prompt) @@ ("scene_type" :> "generated") @@ ("timestamp" :> timestamp)

\* metadata of the save in respond
InteractionMetadata(player_input) ==
    ("type" :> "player_interaction") @@ ("player_input" :> player_input)

(* --------------------------- Chroma (library) ------------------------- *)

\* Number of records over all collections.
TotalRecords(c) ==
    Len(c["sessions"]) + Len(c["npcs"]) + Len(c["locations"]) + Len(c["items"])

\* collection.get()["ids"]
Ids(coll) == [i \in 1..Len(coll) |-> coll[i].id]

\* Chroma.add_texts -> collection.upsert: a record whose id is already in the
\* collection is replaced in place, any other is appended.
Upsert(coll, rec) ==
    IF \E i \in 1..Len(coll) : coll[i].id = rec.id
    THEN [i \in 1..Len(coll) |-> IF coll[i].id = rec.id THEN rec ELSE coll[i]]
    ELSE Append(coll, rec)

\* The encoder: one coordinate per text, the same for the same text.
Embed(text) ==
    IF text = "t1" THEN 0
    ELSE IF text = "t2" THEN 1
    ELSE IF \E player_input \in PlayerInputs, response_text \in Outputs :
                text = InteractionContent(player_input, response_text) THEN 3
    ELSE 2

Distance(a, b) == IF Embed(a) >= Embed(b) THEN Embed(a) - Embed(b) ELSE Embed(b) - Embed(a)

\* A `where` filter matches a record whose metadata has every key with that value.
Matches(metadata, where) ==
    \A key \in DOMAIN where : key \in DOMAIN metadata /\ metadata[key] = where[key]

\* Positions of the records of a collection that satisfy a filter.
Candidates(coll, where) == {i \in 1..Len(coll) : Matches(coll[i].metadata, where)}

\* A langchain Document: page_content and metadata.
Document(rec) == [page_content |-> rec.text, metadata |-> rec.metadata]

\* The orders in which Chroma may rank a set of positions for a query: by
\* non-decreasing distance, records at the same distance in any order. Records
\* with the same text and metadata give the same documents whichever comes
\* first, so of the orders that differ only by swapping such records the one
\* with the lower position first stands for all.
RECURSIVE Rankings(_, _, _)
Rankings(coll, cands, query) ==
    IF cands = {} THEN {<<>>}
    ELSE LET nearest == { i \in cands : \A j \in cands :
                            Distance(coll[i].text, query) <= Distance(coll[j].text, query) }
             firsts  == { i \in nearest : \A j \in nearest :
                            Document(coll[j]) = Document(coll[i]) => i <= j }
         IN  UNION { { <<i>> \o r : r \in Rankings(coll, cands \ {i}, query) } :
                     i \in firsts }

\* Mutant of SimilaritySearch: the ranking is returned whole, k is ignored.
SimilaritySearchNoTruncate(coll, query, k, where) ==
    { [i \in 1..Len(r) |-> Document(coll[r[i]])] :
        r \in Rankings(coll, Candidates(coll, where), query) }

\* The results similarity_search may return: the first k of a ranking.
SimilaritySearch(coll, query, k, where) ==
    { [i \in 1..Min(k, Len(r)) |-> Document(coll[r[i]])] :
        r \in Rankings(coll, Candidates(coll, where), query) }

(* ------------------- GameMemoryStore: pure helpers -------------------- *)

\* Mutant of DocId: the id leaves out the sequence number.
DocIdNoSequence(kind, natural_id, count) ==
    TypeTag(kind) \o "_" \o natural_id

\* f"{kind}_{natural_id}_{len(store._collection.get()['ids'])}"
DocId(kind, natural_id, count) ==
    TypeTag(kind) \o "_" \o natural_id \o "_" \o ToString(count)

\* The dict passed to metadata.update(...) by save_<kind>_memory.
ReservedMetadata(kind, natural_id, natural_name) ==
    IF HasName(kind)
    THEN (IdKey(kind) :> natural_id) @@ (NameKey(kind) :> natural_name)
            @@ ("type" :> TypeTag(kind))
    ELSE (IdKey(kind) :> natural_id) @@ ("type" :> TypeTag(kind))

\* Mutant of SaveMetadata: the update runs the other way round, so the caller's
\* extras replace the reserved keys.
SaveMetadataExtrasWin(kind, natural_id, natural_name, metadata) ==
    DictUpdate(ReservedMetadata(kind, natural_id, natural_name), MetadataOrEmpty(metadata))

\* metadata = metadata or {}; metadata.update({...})
SaveMetadata(kind, natural_id, natural_name, metadata) ==
    DictUpdate(MetadataOrEmpty(metadata), ReservedMetadata(kind, natural_id, natural_name))

\* The caller's metadata object when save_<kind>_memory returns. `metadata or {}`
\* is the caller's own dict when that dict is non-empty, and metadata.update(...)
\* then writes into it; None and an empty dict are replaced by a new dict and
\* stay as they were.
CallerMetadataAfter(kind, natural_id, natural_name, metadata) ==
    IF metadata = NoneDict \/ DOMAIN metadata = {} THEN metadata
    ELSE DictUpdate(metadata, ReservedMetadata(kind, natural_id, natural_name))

\* The record add_texts receives: ids=[doc_id], texts=[content], metadatas=[metadata].
NewRecord(kind, natural_id, natural_name, content, metadata, count) ==
    [ id       |-> DocId(kind, natural_id, count),
      text     |-> content,
      metadata |-> SaveMetadata(kind, natural_id, natural_name, metadata) ]

\* Mutant of AddTexts: the collection is built anew from the one text (as
\* Chroma.from_texts would) instead of being added to.
AddTextsRecreate(c, kind, rec) == [c EXCEPT ![kind] = <<rec>>]

\* self.<kind>_store.add_texts(...) on the collections of the client.
AddTexts(c, kind, rec) == [c EXCEPT ![kind] = Upsert(@, rec)]

\* Mutant of WhereFilter: the name is tested first, so a name takes precedence
\* over an id.
WhereFilterNameFirst(kind, id, name) ==
    IF HasName(kind) /\ Truthy(name) THEN (NameKey(kind) :> name)
    ELSE IF Truthy(id) THEN (IdKey(kind) :> id)
    ELSE EmptyDict

\* where_filter of retrieve_<kind>_memories: the id if it is truthy, else the
\* name if the kind has one and it is truthy, else no filter.
WhereFilter(kind, id, name) ==
    IF Truthy(id) THEN (IdKey(kind) :> id)
    ELSE IF HasName(kind) /\ Truthy(name) THEN (NameKey(kind) :> name)
    ELSE EmptyDict

\* Mutant of DeleteCollection: the client is reset, which drops every collection.
DeleteEveryCollection(c, kind) == [kd \in Kinds |-> <<>>]

\* self.client.delete_collection(name): the collection and its records are gone.
DeleteCollection(c, kind) == [c EXCEPT ![kind] = <<>>]

\* The store handles after delete_collection(kind): the handle of the deleted
\* collection refers to a collection that no longer exists.
HandlesAfterDelete(l, kind) == [l EXCEPT ![kind] = FALSE]

\* Mutant of InitCollections: the handles are left as they are.
InitCollectionsKeep(l) == l

\* _init_collections: Chroma(...) get-or-creates each of the four collections
\* and every handle is replaced by a fresh one.
InitCollections(l) == [kind \in Kinds |-> TRUE]

\* get_collection_stats
CollectionStats(c) == [kind \in Kinds |-> Len(Ids(c[kind]))]

(* ----------------------- the record of the last call ------------------ *)

\* op and kind name the call; id, name, content, metadata, query and k are its
\* arguments; outcome is "ok" or the exception raised; docs is what a retrieve
\* returned, stats what get_collection_stats returned, removed the number of
\* records a clear deleted. For a call of the agent: docs is the list of
\* memories it retrieved, context the context string it built, failed the kinds
\* whose retrieval raised, save_error the exception its memory write raised.
\* For a request to the API: status is the HTTP status of the response.
\* For a save: metadata is the dict the caller passed as it was at the call,
\* caller_metadata that same dict as it is when the call has returned.

Call(op, kind) ==
    [ op |-> op, kind |-> kind, id |-> None, name |-> None, content |-> None,
      metadata |-> NoneDict, query |-> None, k |-> 0, outcome |-> "ok",
      docs |-> <<>>, stats |-> [kd \in Kinds |-> 0], removed |-> 0,
      context |-> "", failed |-> {}, save_error |-> "none",
      caller_metadata |-> NoneDict, status |-> 0 ]

\* A thread's call: where it is, what it is doing, the record a save is about to
\* write, and how its last finished call ended.
NoRecord == [id |-> None, text |-> None, metadata |-> EmptyDict]

Idle == [pc |-> "idle", op |-> None, kind |-> None, rec |-> NoRecord, outcome |-> "none"]

\* game_master = GameMasterAgent(): no session id is given, so a uuid4 is drawn.
\* The other fields are the turn the agent is in (SpecHang): the operation, the
\* place in _retrieve_relevant_memories (pc, the kind being asked), its
\* arguments and its list, the kinds that raised, and whether the call it is
\* waiting for will never return. run counts the processes started before the
\* one the agent lives in (SpecApi).
NewAgent ==
    [ session_id |-> "uuid-0", pc |-> "idle", op |-> None, query |-> None, k |-> 0,
      all_memories |-> <<>>, failed |-> {}, hung |-> FALSE, run |-> 0 ]

\* The file before init_db: no table. rows is the game_states table in
\* insertion order, seq the largest id given so far (sqlite_sequence, which
\* AUTOINCREMENT keeps).
NoTable == [exists |-> FALSE, rows |-> <<>>, seq |-> 0]

Init ==
    /\ db = NoTable
    /\ collections = [kind \in Kinds |-> <<>>]
    /\ live = [kind \in Kinds |-> TRUE]
    /\ last = Call("init", None)
    /\ th = [t \in Threads |-> Idle]
    /\ agent = NewAgent

(* --------------------- Spec: one call at a time ----------------------- *)

\* save_<kind>_memory, start to finish.
SaveMemory(kind, natural_id, natural_name, content, metadata) ==
    /\ live[kind]
    /\ TotalRecords(collections) < MaxRecords
    /\ LET count == Len(Ids(collections[kind]))
           rec   == NewRecord(kind, natural_id, natural_name, content, metadata, count)
       IN  collections' = AddTexts(collections, kind, rec)
    /\ last' = [Call("save", kind) EXCEPT
                    !.id = natural_id, !.name = natural_name,
                    !.content = content, !.metadata = metadata,
                    !.caller_metadata =
                        CallerMetadataAfter(kind, natural_id, natural_name, metadata)]
    /\ UNCHANGED <<live, th, agent, db>>

SaveSessionMemory ==
    \E session_id \in NaturalIds, content \in ContentsOf("sessions"),
       metadata \in ExtraMetadata("sessions") :
        SaveMemory("sessions", session_id, None, content, metadata)

SaveNpcMemory ==
    \E npc_id \in NaturalIds, npc_name \in NaturalNames, content \in ContentsOf("npcs"),
       metadata \in ExtraMetadata("npcs") :
        SaveMemory("npcs", npc_id, npc_name, content, metadata)

SaveLocationMemory ==
    \E location_id \in NaturalIds, location_name \in NaturalNames, content \in ContentsOf("locations"),
       metadata \in ExtraMetadata("locations") :
        SaveMemory("locations", location_id, location_name, content, metadata)

SaveItemMemory ==
    \E item_id \in NaturalIds, item_name \in NaturalNames, content \in ContentsOf("items"),
       metadata \in ExtraMetadata("items") :
        SaveMemory("items", item_id, item_name, content, metadata)

\* retrieve_<kind>_memories, start to finish.
RetrieveMemories(kind, query, id, name, k) ==
    /\ live[kind]
    /\ \E docs \in SimilaritySearch(collections[kind], query, k, WhereFilter(kind, id, name)) :
          last' = [Call("retrieve", kind) EXCEPT !.id = id, !.name = name,
                                                 !.query = query, !.k = k, !.docs = docs]
    /\ UNCHANGED <<collections, live, th, agent, db>>

RetrieveSessionMemories ==
    \E query \in Queries, session_id \in IdFilters, k \in Ks :
        RetrieveMemories("sessions", query, session_id, None, k)

RetrieveNpcMemories ==
    \E query \in Queries, npc_id \in IdFilters, npc_name \in NameFilters, k \in Ks :
        RetrieveMemories("npcs", query, npc_id, npc_name, k)

RetrieveLocationMemories ==
    \E query \in Queries, location_id \in IdFilters, location_name \in NameFilters, k \in Ks :
        RetrieveMemories("locations", query, location_id, location_name, k)

RetrieveItemMemories ==
    \E query \in Queries, item_id \in IdFilters, item_name \in NameFilters, k \in Ks :
        RetrieveMemories("items", query, item_id, item_name, k)

\* Mutant of ClearedCollections: the final else clears every collection
\* instead of raising with nothing touched.
ClearedCollectionsElseAll(c, collection_type) ==
    IF collection_type \in Kinds THEN DeleteCollection(c, collection_type)
    ELSE [kd \in Kinds |-> <<>>]

\* The collections after clear_collection(collection_type) has returned or raised.
ClearedCollections(c, collection_type) ==
    IF collection_type \in Kinds THEN DeleteCollection(c, collection_type) ELSE c

\* clear_collection, start to finish: delete_collection then _init_collections
\* for a known kind, ValueError for any other.
ClearCollection ==
    \E collection_type \in CollectionTypes :
        /\ collection_type \in Kinds => live[collection_type]
        /\ collections' = ClearedCollections(collections, collection_type)
        /\ live' = IF collection_type \in Kinds
                   THEN InitCollections(HandlesAfterDelete(live, collection_type))
                   ELSE live
        /\ last' = [Call("clear", collection_type) EXCEPT
                        !.outcome = IF collection_type \in Kinds THEN "ok" ELSE "ValueError",
                        !.removed = IF collection_type \in Kinds
                                    THEN Len(collections[collection_type]) ELSE 0]
        /\ UNCHANGED <<th, agent, db>>

\* get_collection_stats
GetCollectionStats ==
    /\ \A kind \in Kinds : live[kind]
    /\ last' = [Call("stats", None) EXCEPT !.stats = CollectionStats(collections)]
    /\ UNCHANGED <<collections, live, th, agent, db>>

\* The process stops and starts again: GameMemoryStore.__init__ opens the
\* persisted collections; what was written stays on disk.
Restart ==
    /\ live' = InitCollections(live)
    /\ last' = Call("restart", None)
    /\ UNCHANGED <<collections, th, agent, db>>

Next ==
    \/ SaveSessionMemory
    \/ SaveNpcMemory
    \/ SaveLocationMemory
    \/ SaveItemMemory
    \/ RetrieveSessionMemories
    \/ RetrieveNpcMemories
    \/ RetrieveLocationMemories
    \/ RetrieveItemMemories
    \/ ClearCollection
    \/ GetCollectionStats
    \/ Restart

Spec == Init /\ [][Next]_vars

(* ------------------ SpecConc: calls from several threads -------------- *)

\* Kinds, names and extra metadata used by the concurrent callers.
ConcKinds == {"sessions", "npcs"}
ConcName(kind) == IF HasName(kind) THEN "x" ELSE None

Finished(op, kind, outcome) ==
    [pc |-> "idle", op |-> op, kind |-> kind, rec |-> NoRecord, outcome |-> outcome]

\* save_<kind>_memory up to the call of add_texts: the count is read through
\* the store handle and the id and metadata are built. A handle whose
\* collection was deleted raises.
SaveRead(t) ==
    \E kind \in ConcKinds, natural_id \in NaturalIds, content \in Contents :
        /\ th[t].pc = "idle"
        /\ TotalRecords(collections) < MaxRecords
        /\ IF live[kind]
           THEN LET count == Len(Ids(collections[kind]))
                    rec   == NewRecord(kind, natural_id, ConcName(kind), content,
                                       NoneDict, count)
                IN  th' = [th EXCEPT ![t] = [pc |-> "save_write", op |-> "save",
                                             kind |-> kind, rec |-> rec,
                                             outcome |-> "none"]]
           ELSE th' = [th EXCEPT ![t] = Finished("save", kind, "error")]
        /\ UNCHANGED <<collections, live, last, agent, db>>

\* save_<kind>_memory: add_texts on the handle the store holds now.
SaveWrite(t) ==
    /\ th[t].pc = "save_write"
    /\ IF live[th[t].kind]
       THEN /\ collections' = AddTexts(collections, th[t].kind, th[t].rec)
            /\ th' = [th EXCEPT ![t] = Finished("save", th[t].kind, "ok")]
       ELSE /\ th' = [th EXCEPT ![t] = Finished("save", th[t].kind, "error")]
            /\ UNCHANGED <<collections, db>>
    /\ UNCHANGED <<live, last, agent, db>>

\* retrieve_<kind>_memories: one similarity search on the handle.
RetrieveConc(t) ==
    \E kind \in ConcKinds :
        /\ th[t].pc = "idle"
        /\ th' = [th EXCEPT ![t] =
                    Finished("retrieve", kind, IF live[kind] THEN "ok" ELSE "error")]
        /\ UNCHANGED <<collections, live, last, agent, db>>

\* clear_collection up to and including self.client.delete_collection(name);
\* deleting a collection that does not exist raises.
ClearDelete(t) ==
    \E kind \in ConcKinds :
        /\ th[t].pc = "idle"
        /\ IF live[kind]
           THEN /\ collections' = DeleteCollection(collections, kind)
                /\ live' = HandlesAfterDelete(live, kind)
                /\ th' = [th EXCEPT ![t] = [pc |-> "clear_init", op |-> "clear",
                                            kind |-> kind, rec |-> NoRecord,
                                            outcome |-> "none"]]
           ELSE /\ th' = [th EXCEPT ![t] = Finished("clear", kind, "error")]
                /\ UNCHANGED <<collections, live, db>>
        /\ UNCHANGED <<last, agent, db>>

\* clear_collection: self._init_collections()
ClearInit(t) ==
    /\ th[t].pc = "clear_init"
    /\ live' = InitCollections(live)
    /\ th' = [th EXCEPT ![t] = Finished("clear", th[t].kind, "ok")]
    /\ UNCHANGED <<collections, last, agent, db>>

NextConc ==
    \E t \in Threads :
        \/ SaveRead(t)
        \/ SaveWrite(t)
        \/ RetrieveConc(t)
        \/ ClearDelete(t)
        \/ ClearInit(t)

SpecConc == Init /\ [][NextConc]_vars

(* ------------------ GameMasterAgent: pure helpers --------------------- *)

\* sep.join(parts)
RECURSIVE Join(_, _)
Join(parts, sep) ==
    IF parts = <<>> THEN ""
    ELSE IF Len(parts) = 1 THEN parts[1]
    ELSE parts[1] \o sep \o Join(Tail(parts), sep)

\* Mutant of AgentIdFilter: sessions are retrieved without the session id.
AgentIdFilterNone(kind, session_id) == None

\* The id filter _retrieve_relevant_memories passes for a kind: the agent's
\* session id for sessions, nothing for the other kinds.
AgentIdFilter(kind, session_id) == IF kind = "sessions" THEN session_id ELSE None

\* What one try block of _retrieve_relevant_memories adds to all_memories: a
\* result of retrieve_<kind>_memories, or nothing when the call raises (the
\* handle is stale, or the library fails: kind \in raising).
KindMemories(c, lv, kind, session_id, query, k, raising) ==
    IF kind \in raising \/ ~lv[kind] THEN {<<>>}
    ELSE SimilaritySearch(c[kind], query, k,
                          WhereFilter(kind, AgentIdFilter(kind, session_id), None))

\* Mutant of RetrieveRelevantMemories: the first retrieval that raises ends the
\* gathering, the kinds after it are not asked.
RetrieveRelevantMemoriesAbort(c, lv, session_id, query, k, raising) ==
    LET Ask(kind, before) ==
            IF \E kd \in before : kd \in raising \/ ~lv[kd] THEN {<<>>}
            ELSE KindMemories(c, lv, kind, session_id, query, k, raising)
    IN  { s \o n \o l \o i :
            s \in Ask("sessions", {}),
            n \in Ask("npcs", {"sessions"}),
            l \in Ask("locations", {"sessions", "npcs"}),
            i \in Ask("items", {"sessions", "npcs", "locations"}) }

\* Mutant of RetrieveRelevantMemories: the memories of the four kinds are merged
\* into one list ordered by distance to the query.
RetrieveRelevantMemoriesByScore(c, lv, session_id, query, k, raising) ==
    LET gathered == { s \o n \o l \o i :
                        s \in KindMemories(c, lv, "sessions", session_id, query, k, raising),
                        n \in KindMemories(c, lv, "npcs", session_id, query, k, raising),
                        l \in KindMemories(c, lv, "locations", session_id, query, k, raising),
                        i \in KindMemories(c, lv, "items", session_id, query, k, raising) }
        merged(m) == [j \in 1..Len(m) |-> [text |-> m[j].page_content, metadata |-> m[j].metadata]]
    IN  UNION { { [j \in 1..Len(r) |-> m[r[j]]] : r \in Rankings(merged(m), 1..Len(m), query) } :
                m \in gathered }

\* _retrieve_relevant_memories: the lists all_memories can be when it returns,
\* the four kinds asked in the order sessions, npcs, locations, items and each
\* result appended to the list.
RetrieveRelevantMemories(c, lv, session_id, query, k, raising) ==
    { s \o n \o l \o i :
        s \in KindMemories(c, lv, "sessions", session_id, query, k, raising),
        n \in KindMemories(c, lv, "npcs", session_id, query, k, raising),
        l \in KindMemories(c, lv, "locations", session_id, query, k, raising),
        i \in KindMemories(c, lv, "items", session_id, query, k, raising) }

\* The string _format_memory_context returns for an empty list.
NoMemories == "No relevant past memories found. Create a new scene from scratch."

\* metadata_info of one memory: the names present in its metadata.
MetadataInfo(metadata) ==
    (IF "npc_name" \in DOMAIN metadata THEN <<"NPC: " \o metadata["npc_name"]>> ELSE <<>>)
    \o (IF "location_name" \in DOMAIN metadata
        THEN <<"Location: " \o metadata["location_name"]>> ELSE <<>>)
    \o (IF "item_name" \in DOMAIN metadata THEN <<"Item: " \o metadata["item_name"]>> ELSE <<>>)

\* The text of one entry after its number: f"[{memory_type}]{metadata_str}: {content}"
MemoryEntry(memory) ==
    LET memory_type  == IF "type" \in DOMAIN memory.metadata
                        THEN memory.metadata["type"] ELSE "unknown"
        metadata_info == MetadataInfo(memory.metadata)
        metadata_str == IF metadata_info # <<>>
                        THEN " (" \o Join(metadata_info, ", ") \o ")" ELSE ""
    IN  "[" \o memory_type \o "]" \o metadata_str \o ": " \o memory.page_content

\* context_parts of a non-empty list: the heading, then one numbered entry per memory.
ContextParts(memories) ==
    <<"Relevant memories from past sessions:">>
    \o [i \in 1..Len(memories) |-> ToString(i) \o ". " \o MemoryEntry(memories[i])]

\* Mutant of FormatMemoryContext: an empty list is formatted like any other.
FormatMemoryContextAlways(memories) == Join(ContextParts(memories), "\n")

\* _format_memory_context
FormatMemoryContext(memories) ==
    IF memories = <<>> THEN NoMemories ELSE Join(ContextParts(memories), "\n")

\* Mutant of AddTextsOrRaise: a write that fails has stored the record before
\* it raises.
AddTextsOrphanOnFailure(c, kind, rec, fault) ==
    IF fault = "EncoderUnavailable" THEN c ELSE AddTexts(c, kind, rec)

\* add_texts when the library can fail: the texts are embedded, then the one
\* record is written; a raise at either step leaves the collection as it was.
AddTextsOrRaise(c, kind, rec, fault) ==
    IF fault = "none" THEN AddTexts(c, kind, rec) ELSE c

(* ---------- SpecAgent: the agent and the store, one call at a time ----- *)

AgentOps == {"generate_scene", "respond"}

\* How a call of the agent can go: the kinds whose retrieval raises, whether
\* agent_executor returns or raises, and what the save of the turn raises. The
\* executor and the save fail only in calls whose retrievals all return.
Scenarios ==
    { [raising |-> raising, executor |-> "ok", fault |-> "none"] : raising \in SUBSET Kinds }
    \cup { [raising |-> {}, executor |-> "error", fault |-> "none"] }
    \cup { [raising |-> {}, executor |-> "ok", fault |-> fault] : fault \in Faults }

\* save_<kind>_memory when the library can fail inside add_texts: the exception
\* is not caught, the caller sees it.
SaveMemoryOrRaise(kind, natural_id, natural_name, content, metadata, fault) ==
    /\ live[kind]
    /\ TotalRecords(collections) < MaxStored
    /\ LET rec == NewRecord(kind, natural_id, natural_name, content, metadata,
                            Len(collections[kind]))
       IN  collections' = AddTextsOrRaise(collections, kind, rec, fault)
    /\ last' = [Call("save", kind) EXCEPT !.id = natural_id, !.name = natural_name,
                                          !.content = content, !.metadata = metadata,
                                          !.outcome = IF fault = "none" THEN "ok" ELSE fault]
    /\ UNCHANGED <<live, th, agent, db>>

\* The world is filled through the store: memories of one NPC, one location
\* and one item.
SaveWorldMemory ==
    \E kind \in Kinds \ {"sessions"}, fault \in Faults :
        SaveMemoryOrRaise(kind, "a", "x", "t1", NoneDict, fault)

\* Mutant of TurnResult: the turn is saved before the executor is run, so it is
\* stored whether or not the executor raises.
TurnResultSaveFirst(op, query, k, content, metadata, text, relevant_memories, failed, executor, fault) ==
    LET rec     == NewRecord("sessions", agent.session_id, None, content, metadata,
                             Len(collections["sessions"]))
        saving  == IF live["sessions"] THEN fault ELSE "PersistenceFailure"
        retried == [Call(op, "sessions") EXCEPT
                      !.id = agent.session_id, !.query = query, !.k = k,
                      !.docs = relevant_memories,
                      !.context = FormatMemoryContext(relevant_memories),
                      !.failed = failed]
    IN  [ collections |-> AddTextsOrRaise(collections, "sessions", rec, saving),
          last |-> IF executor = "error" THEN [retried EXCEPT !.outcome = "error"]
                   ELSE [retried EXCEPT !.content = text, !.metadata = metadata,
                                        !.save_error = saving] ]

\* A turn of the agent after _retrieve_relevant_memories has returned: format
\* the memories, run the executor (if it raises the turn ends there), save the
\* turn to the session collection (an exception of the save is caught and
\* printed), return the text. The value is the collections and the finished
\* call the turn leaves.
TurnResult(op, query, k, content, metadata, text, relevant_memories, failed, executor, fault) ==
    LET memory_context == FormatMemoryContext(relevant_memories)
        rec     == NewRecord("sessions", agent.session_id, None, content, metadata,
                             Len(collections["sessions"]))
        saving  == IF live["sessions"] THEN fault ELSE "PersistenceFailure"
        retried == [Call(op, "sessions") EXCEPT
                      !.id = agent.session_id, !.query = query, !.k = k,
                      !.docs = relevant_memories, !.context = memory_context,
                      !.failed = failed]
    IN  IF executor = "error"
        THEN [ collections |-> collections,
               last |-> [retried EXCEPT !.outcome = "error"] ]
        ELSE [ collections |-> AddTextsOrRaise(collections, "sessions", rec, saving),
               last |-> [retried EXCEPT !.content = text, !.metadata = metadata,
                                        !.save_error = saving] ]

\* The step of the program that is the rest of a turn.
TurnAfterRetrieval(op, query, k, content, metadata, text, relevant_memories, failed, executor, fault) ==
    LET turn == TurnResult(op, query, k, content, metadata, text, relevant_memories,
                           failed, executor, fault)
    IN  /\ collections' = turn.collections
        /\ last' = turn.last

\* A turn of the agent, start to finish.
AgentTurn(op, query, k, content, metadata, text, scenario) ==
    /\ \/ /\ TotalRecords(collections) < MaxStored
          /\ Len(collections["sessions"]) < MaxTurns
       \/ scenario.executor = "error"
       \/ scenario.fault # "none"
    /\ \E relevant_memories \in
            RetrieveRelevantMemories(collections, live, agent.session_id, query, k,
                                     scenario.raising) :
          TurnAfterRetrieval(op, query, k, content, metadata, text, relevant_memories,
                             { kind \in Kinds : kind \in scenario.raising \/ ~live[kind] },
                             scenario.executor, scenario.fault)
    /\ UNCHANGED <<live, th, agent, db>>

\* Mutant of Respond: the memories are gathered with the default k.
RespondDefaultK ==
    \E player_input \in PlayerInputs, response_text \in Outputs, scenario \in Scenarios :
        AgentTurn("respond", player_input, SceneK,
                  InteractionContent(player_input, response_text),
                  InteractionMetadata(player_input), response_text, scenario)

\* generate_scene(prompt)
GenerateScene ==
    \E prompt \in Prompts, response_text \in Outputs, timestamp \in Uuids,
       scenario \in Scenarios :
        AgentTurn("generate_scene", prompt, SceneK,
                  SceneContent(prompt, response_text),
                  SceneMetadata(prompt, timestamp), response_text, scenario)

\* respond(player_input)
Respond ==
    \E player_input \in PlayerInputs, response_text \in Outputs, scenario \in Scenarios :
        AgentTurn("respond", player_input, RespondK,
                  InteractionContent(player_input, response_text),
                  InteractionMetadata(player_input), response_text, scenario)

NextAgent ==
    \/ SaveWorldMemory
    \/ GenerateScene
    \/ Respond

SpecAgent == Init /\ [][NextAgent]_vars

(* ------- SpecHang: a turn of the agent, one library call at a time ----- *)

\* The kind _retrieve_relevant_memories asks after a kind; "format" after the last.
NextKind(kind) ==
    CASE kind = "sessions"  -> "npcs"
      [] kind = "npcs"      -> "locations"
      [] kind = "locations" -> "items"
      [] kind = "items"     -> "format"

\* The store is filled while no turn is running: the handlers are coroutines
\* of one event loop and call the agent without awaiting.
HangSave ==
    /\ agent.pc = "idle"
    /\ TotalRecords(collections) < MaxRecords
    /\ SaveWorldMemory

\* generate_scene or respond enters _retrieve_relevant_memories: all_memories = []
BeginTurn ==
    /\ agent.pc = "idle"
    /\ TotalRecords(collections) < MaxRecords
    /\ \E op \in AgentOps, query \in Prompts \cup PlayerInputs :
          agent' = [agent EXCEPT !.pc = "sessions", !.op = op, !.query = query,
                                 !.k = IF op = "respond" THEN RespondK ELSE SceneK,
                                 !.all_memories = <<>>, !.failed = {}]
    /\ UNCHANGED <<collections, live, last, th, db>>

\* retrieve_<kind>_memories returns: all_memories.extend(...)
KindReturns ==
    /\ agent.pc \in Kinds
    /\ ~agent.hung
    /\ live[agent.pc]
    /\ \E docs \in SimilaritySearch(collections[agent.pc], agent.query, agent.k,
                                    WhereFilter(agent.pc,
                                                AgentIdFilter(agent.pc, agent.session_id),
                                                None)) :
          agent' = [agent EXCEPT !.pc = NextKind(@), !.all_memories = @ \o docs]
    /\ UNCHANGED <<collections, live, last, th, db>>

\* retrieve_<kind>_memories raises: the except clause prints, the next kind is asked.
KindRaises ==
    /\ agent.pc \in Kinds
    /\ ~agent.hung
    /\ agent' = [agent EXCEPT !.pc = NextKind(@), !.failed = @ \cup {agent.pc}]
    /\ UNCHANGED <<collections, live, last, th, db>>

\* retrieve_<kind>_memories neither returns nor raises: the call is made without
\* a timeout, in the thread of the turn, so the turn waits in it.
KindHangs ==
    /\ agent.pc \in Kinds
    /\ ~agent.hung
    /\ agent' = [agent EXCEPT !.hung = TRUE]
    /\ UNCHANGED <<collections, live, last, th, db>>

\* _retrieve_relevant_memories has returned: the rest of the turn.
FinishTurn ==
    /\ agent.pc = "format"
    /\ \E response_text \in Outputs, timestamp \in Uuids,
          executor \in {"ok", "error"}, fault \in Faults :
          TurnAfterRetrieval(agent.op, agent.query, agent.k,
                             IF agent.op = "respond"
                             THEN InteractionContent(agent.query, response_text)
                             ELSE SceneContent(agent.query, response_text),
                             IF agent.op = "respond"
                             THEN InteractionMetadata(agent.query)
                             ELSE SceneMetadata(agent.query, timestamp),
                             response_text, agent.all_memories, agent.failed,
                             executor, fault)
    /\ agent' = [NewAgent EXCEPT !.session_id = agent.session_id]
    /\ UNCHANGED <<live, th, db>>

\* The steps by which a turn that has begun goes on.
TurnStep == KindReturns \/ KindRaises \/ FinishTurn

NextHang ==
    \/ HangSave
    \/ BeginTurn
    \/ KindReturns
    \/ KindRaises
    \/ KindHangs
    \/ FinishTurn

SpecHang == Init /\ [][NextHang]_vars

(* --------- SpecRag: the retriever handed to a retrieval chain ---------- *)

\* get_combined_retriever(k) and a query put to the retriever it returns: the
\* retriever is the one of the sessions store, with no filter.
CombinedRetrieve ==
    /\ live["sessions"]
    /\ \E query \in Queries, k \in Ks :
          \E docs \in SimilaritySearch(collections["sessions"], query, k, EmptyDict) :
              last' = [Call("combined_retrieve", None) EXCEPT
                          !.query = query, !.k = k, !.docs = docs]
    /\ UNCHANGED <<collections, live, th, agent, db>>

NextRag ==
    \/ SaveSessionMemory
    \/ SaveNpcMemory
    \/ SaveLocationMemory
    \/ SaveItemMemory
    \/ CombinedRetrieve

SpecRag == Init /\ [][NextRag]_vars

(* ------ SpecApi: the API process, started anew, and its requests ------- *)

\* Largest number of times the process is started again.
MaxRuns == 1

\* session_id arguments of GameMasterAgent(...); the module's game_master passes none.
SessionArgs == {None, "", "a"}

\* prompt fields of the requests.
RequestPrompts == {"", " ", "  ", "t1"}

\* str.strip() on the prompts of the requests: leading and trailing blanks go.
Strip(s) == IF s \in {" ", "  "} THEN "" ELSE s

\* Mutant of ValidPrompt: the prompt is not stripped before it is tested.
ValidPromptNoStrip(prompt) == prompt # ""

\* not (not request.prompt or not request.prompt.strip())
ValidPrompt(prompt) == prompt # "" /\ Strip(prompt) # ""

\* self.session_id = session_id or str(uuid.uuid4()): the uuid drawn in a
\* process differs from those drawn in the processes before it.
SessionIdOf(session_id, run) ==
    IF Truthy(session_id) THEN session_id ELSE "uuid-" \o ToString(run)

\* The process ends and is started again: the collections are on disk and are
\* opened as they were, a new GameMasterAgent is made.
ProcessStart ==
    /\ agent.run < MaxRuns
    /\ \E session_id \in SessionArgs :
          agent' = [NewAgent EXCEPT !.run = agent.run + 1,
                                    !.session_id = SessionIdOf(session_id, agent.run + 1)]
    /\ live' = InitCollections(live)
    /\ last' = Call("restart", None)
    /\ UNCHANGED <<collections, th, db>>

\* POST /generate-scene with a prompt that fails the validation: HTTPException(400)
PostGenerateSceneRejected ==
    /\ \E prompt \in RequestPrompts :
          /\ ~ValidPrompt(prompt)
          /\ last' = [Call("post_generate_scene", None) EXCEPT
                         !.query = prompt, !.outcome = "HTTPException", !.status = 400]
    /\ UNCHANGED <<collections, live, th, agent, db>>

\* POST /generate-scene with a valid prompt: game_master.generate_scene is
\* called inside try; its text is returned with status 200, any exception
\* becomes HTTPException(500).
PostGenerateSceneHandled ==
    /\ \E prompt \in RequestPrompts, response_text \in Outputs, timestamp \in Uuids,
          scenario \in Scenarios :
          /\ ValidPrompt(prompt)
          /\ \/ /\ TotalRecords(collections) < MaxStored
                /\ Len(collections["sessions"]) < MaxTurns
             \/ scenario.executor = "error"
             \/ scenario.fault # "none"
          /\ \E relevant_memories \in
                  RetrieveRelevantMemories(collections, live, agent.session_id, prompt,
                                           SceneK, scenario.raising) :
                LET turn == TurnResult("generate_scene", prompt, SceneK,
                                       SceneContent(prompt, response_text),
                                       SceneMetadata(prompt, timestamp), response_text,
                                       relevant_memories,
                                       { kind \in Kinds :
                                           kind \in scenario.raising \/ ~live[kind] },
                                       scenario.executor, scenario.fault)
                IN  /\ collections' = turn.collections
                    /\ last' = [turn.last EXCEPT
                                   !.op = "post_generate_scene",
                                   !.status = IF turn.last.outcome = "ok" THEN 200 ELSE 500]
    /\ UNCHANGED <<live, th, agent, db>>

NextApi ==
    \/ ProcessStart
    \/ PostGenerateSceneRejected
    \/ PostGenerateSceneHandled

SpecApi == Init /\ [][NextApi]_vars

(* ---------------------- the dice roller (tools.py) --------------------- *)
(* roll_dice is a function of its text and of the random draws.  The text  *)
(* is a sequence of one-character strings; SpecDice starts with a notation *)
(* put together from parts and applies roll_dice to it.                    *)

\* Beyond this number of dice the draws after the first ones are sampled.
MaxFullDice == 2

\* A die with more sides than this has its draws sampled.
MaxFullSides == 3

\* The limits roll_dice enforces.
MaxDice == 100
MaxSides == 1000

\* What \d matches, and the value int() gives it.
Digits == {"0", "1", "2", "3", "4", "5", "6", "7", "8", "9"}
DigitValue(c) == CASE c = "0" -> 0 [] c = "1" -> 1 [] c = "2" -> 2 [] c = "3" -> 3 [] c = "4" -> 4 [] c = "5" -> 5 [] c = "6" -> 6 [] c = "7" -> 7 [] c = "8" -> 8 [] c = "9" -> 9

\* The characters str.strip() removes.
Whitespace == {" ", "\t", "\n"}

\* str.lower() on one character.
LowerChar(c) == CASE c = "D" -> "d" [] c = "X" -> "x" [] OTHER -> c

\* The parts a notation is put together from: number of dice, separator,
\* number of sides, modifier, and the text around them.
DicePartsX == {<<>>, <<"0">>, <<"1">>, <<"2">>, <<"0", "1">>, <<"1", "0", "0">>, <<"1", "0", "1">>}
DicePartsSep == {<<"d">>, <<"D">>, <<"x">>, <<>>, <<"d", " ">>}
DicePartsY == {<<>>, <<"1">>, <<"2">>, <<"3">>, <<"1", "0", "0", "0">>, <<"1", "0", "0", "1">>}
DicePartsZ == {<<>>, <<"+", "1">>, <<"-", "2">>, <<"-", "0">>, <<"+">>, <<"+", "x">>, <<"+", "1", "-", "2">>}
DicePads == {<<>>, <<" ">>, <<"\n">>}
DiceParts == [x : DicePartsX, sep : DicePartsSep, y : DicePartsY, z : DicePartsZ, lpad : DicePads, rpad : DicePads]
NotationOf(parts) == parts.lpad \o parts.x \o parts.sep \o parts.y \o parts.z \o parts.rpad

\* dice_notation.strip().lower()
NormalizeNotation(s) ==
    LET inner == {i \in 1..Len(s) : s[i] \notin Whitespace}
        first == CHOOSE i \in inner : \A j \in inner : i <= j
        final == CHOOSE i \in inner : \A j \in inner : j <= i
    IN  IF inner = {} THEN <<>>
        ELSE [i \in 1..(final - first + 1) |-> LowerChar(s[first + i - 1])]

\* Length of the longest run of digits s starts with (a greedy \d* or \d+).
DigitRun(s) ==
    IF \A i \in 1..Len(s) : s[i] \in Digits THEN Len(s)
    ELSE (CHOOSE i \in 1..Len(s) : s[i] \notin Digits /\ \A j \in 1..(i - 1) : s[j] \in Digits) - 1

\* re.match(r'^(\d*)d(\d+)([+-]\d+)?$', s): whether it matched, and the three
\* groups; a group that took no part in the match is the empty text.
NoMatch == [matched |-> FALSE, g1 |-> <<>>, g2 |-> <<>>, g3 |-> <<>>]
MatchNotation(s) ==
    LET n1 == DigitRun(s)
        rest1 == SubSeq(s, n1 + 1, Len(s))
        rest2 == Tail(rest1)
        n2 == DigitRun(rest2)
        rest3 == SubSeq(rest2, n2 + 1, Len(rest2))
        groups == [matched |-> TRUE, g1 |-> SubSeq(s, 1, n1), g2 |-> SubSeq(rest2, 1, n2), g3 |-> rest3]
    IN  IF rest1 = <<>> \/ rest1[1] # "d" THEN NoMatch
        ELSE IF n2 = 0 THEN NoMatch
        ELSE IF rest3 = <<>> THEN groups
        ELSE IF rest3[1] \in {"+", "-"} /\ Len(rest3) >= 2 /\ DigitRun(Tail(rest3)) = Len(rest3) - 1 THEN groups
        ELSE NoMatch

\* int() of a text of digits with an optional sign in front.
RECURSIVE IntOfDigits(_)
IntOfDigits(s) ==
    IF s = <<>> THEN 0 ELSE 10 * IntOfDigits(SubSeq(s, 1, Len(s) - 1)) + DigitValue(s[Len(s)])

IntOf(s) ==
    IF s[1] = "-" THEN 0 - IntOfDigits(Tail(s))
    ELSE IF s[1] = "+" THEN IntOfDigits(Tail(s))
    ELSE IntOfDigits(s)

\* What roll_dice returns when it refuses its input.
DiceError(message) == [error |-> message, rolls |-> <<>>, total |-> 0, modifier |-> 0]

\* Mutant of DiceLimits: the limit on the number of dice is off by one.
DiceLimitsBelowMax(num_dice, num_sides) ==
    IF num_dice < 1 THEN "Number of dice must be at least 1"
    ELSE IF num_dice >= MaxDice THEN "Number of dice cannot exceed 100"
    ELSE IF num_sides < 2 THEN "Number of sides must be at least 2"
    ELSE IF num_sides > MaxSides THEN "Number of sides cannot exceed 1000"
    ELSE None

\* The four checks on the parsed numbers: the message of the first that
\* fails, None when all pass.
DiceLimits(num_dice, num_sides) ==
    IF num_dice < 1 THEN "Number of dice must be at least 1"
    ELSE IF num_dice > MaxDice THEN "Number of dice cannot exceed 100"
    ELSE IF num_sides < 2 THEN "Number of sides must be at least 2"
    ELSE IF num_sides > MaxSides THEN "Number of sides cannot exceed 1000"
    ELSE None

\* The values random.randint(lo, hi) can give; a wide range is sampled at both
\* of its ends.
RandInt(lo, hi) ==
    IF hi - lo + 1 <= MaxFullSides THEN lo..hi ELSE {lo, lo + 1, hi - 1, hi}

\* [random.randint(1, num_sides) for _ in range(num_dice)]: every die is drawn
\* on its own; of a long list the dice after the first MaxFullDice are sampled
\* with one draw for all of them.
DiceRolls(num_dice, num_sides) ==
    IF num_dice <= MaxFullDice THEN [1..num_dice -> RandInt(1, num_sides)]
    ELSE { [i \in 1..num_dice |-> IF i <= MaxFullDice THEN head[i] ELSE rest] :
              head \in [1..MaxFullDice -> RandInt(1, num_sides)], rest \in RandInt(1, num_sides) }

\* sum(rolls)
RECURSIVE SumRolls(_)
SumRolls(rolls) == IF rolls = <<>> THEN 0 ELSE rolls[1] + SumRolls(Tail(rolls))

\* roll_dice(dice_notation): the results it can return.
RollDiceResults(dice_notation) ==
    LET match == MatchNotation(NormalizeNotation(dice_notation))
        num_dice == IF match.g1 # <<>> THEN IntOf(match.g1) ELSE 1
        num_sides == IntOf(match.g2)
        modifier == IF match.g3 # <<>> THEN IntOf(match.g3) ELSE 0
        failed == DiceLimits(num_dice, num_sides)
    IN  IF ~match.matched THEN {DiceError("Invalid dice notation")}
        ELSE IF failed # None THEN {DiceError(failed)}
        ELSE { [error |-> None, rolls |-> rolls, total |-> SumRolls(rolls) + modifier, modifier |-> modifier] :
                  rolls \in DiceRolls(num_dice, num_sides) }

\* No call of roll_dice has returned yet.
NoDiceResult == [error |-> None, rolls |-> <<>>, total |-> 0, modifier |-> 0]

\* A notation has been chosen and roll_dice has not been called on it yet.
InitDice ==
    /\ db = NoTable
    /\ collections = [kind \in Kinds |-> <<>>]
    /\ live = [kind \in Kinds |-> TRUE]
    /\ th = [t \in Threads |-> Idle]
    /\ agent = NewAgent
    /\ \E parts \in DiceParts :
          last = [op |-> "dice_input", parts |-> parts, dice_notation |-> NotationOf(parts), result |-> NoDiceResult]

\* One call of roll_dice on the chosen notation.
RollDice ==
    /\ last.op = "dice_input"
    /\ \E result \in RollDiceResults(last.dice_notation) :
          last' = [last EXCEPT !.op = "roll_dice", !.result = result]
    /\ UNCHANGED <<collections, live, th, agent, db>>

NextDice == RollDice

SpecDice == InitDice /\ [][NextDice]_vars

(* ------------------- the game states (database.py) --------------------- *)
(* Every function opens its own connection, runs one statement, commits    *)
(* and closes: one action per call. The file outlives the process.         *)

\* Largest number of games saved.
MaxGames == 3

\* The arguments of save_game and the values of the clock.
SessionNames == {"g1", "g2"}
StoryLogs == {"", "log"}
Timestamps == {"ts"}

\* The ids load_game is asked for.
GameIds == (0 - 1)..(MaxGames + 1)

\* A call of database.py that has returned or raised; saves lists what the
\* calls of save_game have taken and returned so far.
DbCall(op, saves) ==
    [op |-> op, session_id |-> 0, outcome |-> "ok", found |-> FALSE,
     row |-> [id |-> 0, session_name |-> "", story_log |-> "", timestamp |-> ""],
     saves |-> saves]

\* Mutant of NextRowId: the id of a new row is the largest id given so far.
NextRowIdSame(table) == IF table.seq = 0 THEN 1 ELSE table.seq

\* The id an INTEGER PRIMARY KEY AUTOINCREMENT column gives a new row: one
\* more than the largest id the table has ever given.
NextRowId(table) == table.seq + 1

\* INSERT INTO game_states (session_name, story_log, timestamp) VALUES (?, ?, ?)
InsertGame(table, session_name, story_log, timestamp) ==
    LET id == NextRowId(table)
    IN  [table EXCEPT !.rows = Append(@, [id |-> id, session_name |-> session_name,
                                          story_log |-> story_log, timestamp |-> timestamp]),
                      !.seq = id]

\* SELECT ... FROM game_states WHERE id = ?: the positions of the rows found.
SelectById(table, session_id) == {i \in 1..Len(table.rows) : table.rows[i].id = session_id}

InitSpecDb ==
    /\ collections = [kind \in Kinds |-> <<>>]
    /\ live = [kind \in Kinds |-> TRUE]
    /\ th = [t \in Threads |-> Idle]
    /\ agent = NewAgent
    /\ db = NoTable
    /\ last = DbCall("init", <<>>)

\* init_db(): CREATE TABLE IF NOT EXISTS.
InitDb ==
    /\ db' = [db EXCEPT !.exists = TRUE]
    /\ last' = DbCall("init_db", last.saves)
    /\ UNCHANGED <<collections, live, th, agent>>

\* save_game(session_name, story_log): the INSERT raises when the table is
\* not there; otherwise the row is committed and its id returned.
SaveGame ==
    /\ Len(db.rows) < MaxGames
    /\ \E session_name \in SessionNames, story_log \in StoryLogs, timestamp \in Timestamps :
          IF ~db.exists
          THEN /\ last' = [DbCall("save_game", last.saves) EXCEPT !.outcome = "OperationalError"]
               /\ db' = db
          ELSE LET saved == InsertGame(db, session_name, story_log, timestamp)
                   given == [id |-> saved.seq, session_name |-> session_name, story_log |-> story_log]
               IN  /\ db' = saved
                   /\ last' = [DbCall("save_game", Append(last.saves, given)) EXCEPT !.session_id = saved.seq]
    /\ UNCHANGED <<collections, live, th, agent>>

\* load_game(session_id): the row fetchone() gives as a dict, or None.
LoadGame ==
    /\ \E session_id \in GameIds :
          IF ~db.exists
          THEN last' = [DbCall("load_game", last.saves) EXCEPT !.session_id = session_id, !.outcome = "OperationalError"]
          ELSE LET found == SelectById(db, session_id)
               IN  IF found = {}
                   THEN last' = [DbCall("load_game", last.saves) EXCEPT !.session_id = session_id]
                   ELSE \E i \in found :
                           /\ \A j \in found : i <= j
                           /\ last' = [DbCall("load_game", last.saves) EXCEPT !.session_id = session_id,
                                          !.found = TRUE, !.row = db.rows[i]]
    /\ UNCHANGED <<collections, live, th, agent, db>>

NextDb == InitDb \/ SaveGame \/ LoadGame

SpecDb == InitSpecDb /\ [][NextDb]_vars

(* ------------------------------ claims -------------------------------- *)

\* C1: two saves on the same collection that run at the same time (both have
\* read the record count and neither has written yet) are about to write
\* records with different ids, so neither write replaces the other.
C1_ConcurrentSavesDistinctIds ==
    \A t1, t2 \in Threads :
        ( /\ t1 # t2
          /\ th[t1].pc = "save_write" /\ th[t2].pc = "save_write"
          /\ th[t1].kind = th[t2].kind )
        => th[t1].rec.id # th[t2].rec.id

\* C2: with calls made one at a time, the records of a collection have
\* pairwise different ids, and the id of the record at position i is the
\* kind's tag, the record's natural id and the sequence number i-1, joined by "_".
C2_UniqueIds ==
    \A kind \in Kinds :
        LET coll == collections[kind] IN
        /\ \A i, j \in 1..Len(coll) : i # j => coll[i].id # coll[j].id
        /\ \A i \in 1..Len(coll) :
              coll[i].id = TypeTag(kind) \o "_" \o coll[i].metadata[IdKey(kind)]
                              \o "_" \o ToString(i - 1)

\* C2 witness: after a restart a collection holds two records saved under the
\* same natural id.
C2_Witness ==
    /\ last.op = "restart"
    /\ \E kind \in Kinds :
          /\ Len(collections[kind]) >= 2
          /\ collections[kind][1].metadata[IdKey(kind)]
                = collections[kind][2].metadata[IdKey(kind)]

\* C3: records are append-only. A save that succeeds makes its collection one
\* record longer; in every step that is not a clear of a collection, that
\* collection loses no record and every record it holds keeps its id, text and
\* metadata.
C3_AppendOnly ==
    [][ \A kind \in Kinds :
          LET old == collections[kind]
              new == collections'[kind]
          IN  /\ (last'.op = "save" /\ last'.kind = kind /\ last'.outcome = "ok")
                    => Len(new) = Len(old) + 1
              /\ ~(last'.op = "clear" /\ last'.kind = kind)
                    => /\ Len(new) >= Len(old)
                       /\ \A i \in 1..Len(old) : new[i] = old[i] ]_vars

\* C3 witness: a save has been added to a collection that already held a record.
C3_Witness ==
    /\ last.op = "save"
    /\ last.outcome = "ok"
    /\ Len(collections[last.kind]) = 2

C5_IdFilterOnly ==
    (last.op = "retrieve" /\ last.id # None) =>
        \A i \in DOMAIN last.docs :
            last.docs[i].metadata[IdKey(last.kind)] = last.id

\* C6: when an id and a name are both passed, the result is one the same call
\* with the name omitted can return.
C6_IdTakesPrecedence ==
    (last.op = "retrieve" /\ HasName(last.kind) /\ last.id # None /\ last.name # None) =>
        last.docs \in SimilaritySearch(collections[last.kind], last.query, last.k,
                                       WhereFilter(last.kind, last.id, None))

\* C7: a clear of one collection leaves that collection empty and the other
\* three collections exactly as they were.
C7_ClearFrame ==
    [][ (last'.op = "clear" /\ last'.kind \in Kinds) =>
            /\ collections'[last'.kind] = <<>>
            /\ \A other \in Kinds \ {last'.kind} :
                  collections'[other] = collections[other] ]_vars

\* C7 witness: a clear has deleted a record while another collection holds one.
C7_Witness ==
    /\ last.op = "clear"
    /\ last.kind \in Kinds
    /\ last.removed > 0
    /\ \E other \in Kinds \ {last.kind} : Len(collections[other]) > 0

\* C8: right after a clear the collection is in the state of a newly created
\* one: no records, a usable handle, a count of zero, every retrieve returns
\* nothing, and a save stores its record alone with sequence number 0.
C8_ClearedIsFresh ==
    (last.op = "clear" /\ last.kind \in Kinds) =>
        LET kind == last.kind IN
        /\ collections[kind] = <<>>
        /\ live[kind]
        /\ CollectionStats(collections)[kind] = 0
        /\ \A query \in Queries, id \in IdFilters, name \in NameFilters, k \in Ks :
              SimilaritySearch(collections[kind], query, k, WhereFilter(kind, id, name))
                 = {<<>>}
        /\ \A id \in NaturalIds, content \in Contents :
              AddTexts(collections, kind,
                       NewRecord(kind, id, "x", content, NoneDict,
                                 Len(Ids(collections[kind]))))[kind]
                 = << [ id |-> TypeTag(kind) \o "_" \o id \o "_0", text |-> content,
                        metadata |-> ReservedMetadata(kind, id, "x") ] >>

\* C8 witness: a clear has deleted a collection that held two records.
C8_Witness ==
    /\ last.op = "clear"
    /\ last.kind \in Kinds
    /\ last.removed = 2

\* C9: a save or a retrieve that runs while another thread is inside
\* clear_collection never fails.
C9_ClearAtomic ==
    \A t \in Threads :
        th[t].op \in {"save", "retrieve"} => th[t].outcome # "error"

\* C10: clear_collection with a collection type that is none of the four raises
\* ValueError and changes no collection and no handle.
C10_UnknownCollectionRaises ==
    [][ (last'.op = "clear" /\ last'.kind \notin Kinds) =>
            /\ last'.outcome = "ValueError"
            /\ collections' = collections
            /\ live' = live ]_vars

\* C10 witness: the call raised while records were stored.
C10_Witness ==
    /\ last.op = "clear"
    /\ last.kind \notin Kinds
    /\ last.outcome = "ValueError"
    /\ TotalRecords(collections) = MaxRecords

C12_EmptyGivesSentinel ==
    (last.op \in AgentOps /\ last.docs = <<>>) =>
        /\ last.context = "No relevant past memories found. Create a new scene from scratch."
        /\ last.context # ""
        /\ last.failed # {} => last.outcome = "ok"

\* C12 witness: a turn on an empty store has found nothing, used the sentence
\* and saved itself as the first session record.
C12_Witness ==
    /\ last.op \in AgentOps
    /\ last.failed = {}
    /\ last.docs = <<>>
    /\ last.context = NoMemories
    /\ last.outcome = "ok"
    /\ TotalRecords(collections) = 1
    /\ Len(collections["sessions"]) = 1

\* C13: whatever set of kinds fails to be retrieved, the memories of the turn
\* are exactly a result of the retrieval of each kind that did not fail, in the
\* order sessions, npcs, locations, items, on the collections as they were when
\* the turn began; a failed kind adds nothing, and a turn in which nothing but
\* retrievals failed returns normally.
C13_PartialFailure ==
    [][ last'.op \in AgentOps =>
          LET Result(kind) ==
                  IF kind \in last'.failed THEN {<<>>}
                  ELSE SimilaritySearch(collections[kind], last'.query, last'.k,
                                        IF kind = "sessions"
                                        THEN ("session_id" :> agent.session_id)
                                        ELSE EmptyDict)
          IN  /\ \E s \in Result("sessions"), n \in Result("npcs"),
                    l \in Result("locations"), i \in Result("items") :
                        last'.docs = s \o n \o l \o i
              /\ last'.failed # {} => last'.outcome = "ok" ]_vars

\* C13 witness: the retrieval of items has failed although an item is stored,
\* and the turn has returned with a session, an NPC and a location memory.
C13_Witness ==
    /\ last.op \in AgentOps
    /\ last.failed = {"items"}
    /\ last.outcome = "ok"
    /\ Len(collections["items"]) >= 1
    /\ \A tag \in {"session", "npc", "location"} :
          \E i \in DOMAIN last.docs : last.docs[i].metadata["type"] = tag
    /\ \A i \in DOMAIN last.docs : last.docs[i].metadata["type"] # "item"

\* C14: a retrieval that never returns does not hold the turn: whenever the
\* turn waits in a call that will not return, it can still take a step (the
\* deadline of the call passes and the next kind is asked, or the context is
\* built from the kinds already gathered).
C14_HangDoesNotBlock ==
    (agent.pc \in Kinds /\ agent.hung) => ENABLED TurnStep

\* C15: a save that fails is seen by the caller of the operation that made
\* it: a turn of the agent whose memory write raised does not return its text
\* as a success.
C15_SaveFailureSurfaced ==
    (last.op \in AgentOps /\ last.save_error # "none") => last.outcome # "ok"

\* C16: the memories of a turn come in the order sessions, npcs, locations,
\* items, inside a kind by non-decreasing distance to the query, and the
\* numbered entries of the context are the memories in that same order.
C16_KindOrder ==
    last.op \in AgentOps =>
        LET docs == last.docs
            Priority(doc) == CASE doc.metadata["type"] = "session"  -> 1
                               [] doc.metadata["type"] = "npc"      -> 2
                               [] doc.metadata["type"] = "location" -> 3
                               [] doc.metadata["type"] = "item"     -> 4
                               [] OTHER                             -> 0
        IN  /\ \A i \in DOMAIN docs : Priority(docs[i]) > 0
            /\ \A i, j \in DOMAIN docs :
                  i < j =>
                    /\ Priority(docs[i]) <= Priority(docs[j])
                    /\ Priority(docs[i]) = Priority(docs[j]) =>
                          Distance(docs[i].page_content, last.query)
                            <= Distance(docs[j].page_content, last.query)
            /\ docs # <<>> =>
                  last.context =
                      Join(<<"Relevant memories from past sessions:">>
                           \o [i \in DOMAIN docs |-> ToString(i) \o ". " \o MemoryEntry(docs[i])],
                           "\n")

\* C16 witness: the session saved second is nearer to the query and comes
\* first, and an NPC memory whose text is the query itself comes after both
\* session memories and before a location and an item memory.
C16_Witness ==
    /\ last.op \in AgentOps
    /\ Len(last.docs) = 5
    /\ Len(collections["sessions"]) = 2
    /\ collections["sessions"][1].text = last.docs[2].page_content
    /\ collections["sessions"][2].text = last.docs[1].page_content
    /\ last.docs[1].page_content # last.docs[2].page_content
    /\ last.docs[3].metadata["type"] = "npc"
    /\ last.docs[3].page_content = last.query
    /\ last.docs[4].metadata["type"] = "location"
    /\ last.docs[5].metadata["type"] = "item"

\* C17: no two memories of a turn, hence no two entries of its context, have
\* the same kind tag, the same natural id and name, and the same text.
C17_Deduplicated ==
    last.op \in AgentOps =>
        \A i, j \in DOMAIN last.docs :
            i # j =>
                \E kind \in Kinds :
                    LET a == last.docs[i]
                        b == last.docs[j]
                    IN  /\ a.metadata["type"] = TypeTag(kind)
                        /\ \/ b.metadata["type"] # TypeTag(kind)
                           \/ b.metadata[IdKey(kind)] # a.metadata[IdKey(kind)]
                           \/ HasName(kind) /\ b.metadata[NameKey(kind)] # a.metadata[NameKey(kind)]
                           \/ b.page_content # a.page_content

C20_PerKindK ==
    last.op \in AgentOps =>
        /\ last.op = "generate_scene" => last.k = 5
        /\ last.op = "respond" => last.k = 3
        /\ \A kind \in Kinds :
              Cardinality({ i \in DOMAIN last.docs :
                              last.docs[i].metadata["type"] = TypeTag(kind) }) <= last.k
        /\ Len(last.docs) <= 4 * last.k

\* C20 witness: generate_scene has returned five of six stored item memories.
C20_Witness ==
    /\ last.op = "generate_scene"
    /\ Len(collections["items"]) = 6
    /\ Cardinality({ i \in DOMAIN last.docs : last.docs[i].metadata["type"] = "item" }) = 5

\* C22: two records with the same text in one collection, both returned by a
\* retrieve with k = 2, come in insertion order: the earlier-saved one first.
C22_TiesInInsertionOrder ==
    ( /\ last.op = "retrieve" /\ last.k = 2
      /\ Len(collections[last.kind]) = 2
      /\ collections[last.kind][1].text = collections[last.kind][2].text
      /\ Len(last.docs) = 2 )
    => /\ last.docs[1] = Document(collections[last.kind][1])
       /\ last.docs[2] = Document(collections[last.kind][2])

\* C27: when save_<kind>_memory has returned, the metadata mapping the caller
\* passed holds exactly the keys and values it held at the call.
C27_CallerMetadataUnchanged ==
    (last.op = "save" /\ last.outcome = "ok") => last.caller_metadata = last.metadata

\* C23: a turn of the agent that returns normally adds exactly one record, to
\* the session collection and under the agent's session id, and changes no
\* other collection; a turn that only retrieved (its executor raised) changes
\* no collection.
C23_OnlyWritePath ==
    [][ last'.op \in AgentOps =>
          LET old == collections["sessions"]
              new == collections'["sessions"]
          IN  /\ \A kind \in Kinds \ {"sessions"} : collections'[kind] = collections[kind]
              /\ last'.outcome = "ok" =>
                    /\ Len(new) = Len(old) + 1
                    /\ \A i \in 1..Len(old) : new[i] = old[i]
                    /\ new[Len(new)].metadata["session_id"] = agent.session_id
              /\ last'.outcome # "ok" => new = old ]_vars

\* C26: in a turn of the agent a record is written only when the executor has
\* returned (a turn whose executor raised fails and leaves every collection as
\* it was), and the session memories of the turn are records the collection
\* held before the turn, each taken once, so never the record the turn saves.
C26_SaveAfterGeneration ==
    [][ last'.op \in AgentOps =>
          LET old     == collections["sessions"]
              session == { i \in DOMAIN last'.docs :
                             last'.docs[i].metadata["type"] = "session" }
          IN  /\ last'.outcome = "error" => collections' = collections
              /\ collections' # collections => last'.outcome = "ok"
              /\ \E pos \in [session -> 1..Len(old)] :
                    /\ \A i, j \in session : i # j => pos[i] # pos[j]
                    /\ \A i \in session : last'.docs[i] = Document(old[pos[i]]) ]_vars

\* C26 witness: the executor has raised in a turn that had retrieved a stored
\* session memory.
C26_Witness ==
    /\ last.op \in AgentOps
    /\ last.outcome = "error"
    /\ Len(collections["sessions"]) >= 1
    /\ \E i \in DOMAIN last.docs : last.docs[i].metadata["type"] = "session"

\* C21: the combined retriever searches all four collections: when it returns
\* fewer than k documents it has left out no record of any collection, so a
\* record of npcs, locations or items is returned like one of sessions.
C21_CombinedSearchesAll ==
    (last.op = "combined_retrieve" /\ Len(last.docs) < last.k) =>
        \A kind \in Kinds : \A i \in 1..Len(collections[kind]) :
            \E j \in DOMAIN last.docs : last.docs[j] = Document(collections[kind][i])

\* C24: session memories written before the process is started again stay
\* eligible afterwards: when the default agent (made without a session id)
\* builds a context while the session collection holds records, and the
\* retrieval of sessions does not fail, the context has a session memory.
C24_SessionsSurviveRestart ==
    [][ ( /\ last'.op = "post_generate_scene"
          /\ last'.status \in {200, 500}
          /\ "sessions" \notin last'.failed
          /\ agent.session_id = "uuid-" \o ToString(agent.run)
          /\ Len(collections["sessions"]) >= 1 )
        => \E i \in DOMAIN last'.docs : last'.docs[i].metadata["type"] = "session" ]_vars

\* C25: every session memory in the context an agent builds carries that
\* agent's session id, whatever the session collection holds.
C25_OwnSessionOnly ==
    (last.op = "post_generate_scene" /\ last.status \in {200, 500}) =>
        \A i \in DOMAIN last.docs :
            last.docs[i].metadata["type"] = "session" =>
                last.docs[i].metadata["session_id"] = agent.session_id

\* C25 witness: the context has a session memory of the agent while the
\* collection also holds a record saved under another session id.
C25_Witness ==
    /\ last.op = "post_generate_scene"
    /\ \E i \in DOMAIN last.docs : last.docs[i].metadata["session_id"] = agent.session_id
    /\ \E i \in 1..Len(collections["sessions"]) :
          collections["sessions"][i].metadata["session_id"] # agent.session_id

\* C28: POST /generate-scene answers an empty or blank prompt with status 400
\* and does nothing else (no memory retrieved, no text generated, every
\* collection as it was); for any other prompt it answers 200 with the text, or
\* 500 when generate_scene raised.
C28_HandlerStatus ==
    [][ last'.op = "post_generate_scene" =>
          IF last'.query \in {"", " ", "  "}
          THEN /\ last'.status = 400
               /\ collections' = collections
               /\ last'.docs = <<>> /\ last'.context = "" /\ last'.content = None
          ELSE /\ last'.status \in {200, 500}
               /\ last'.status = 500 <=> last'.outcome = "error"
               /\ last'.status = 200 => last'.content \in Outputs ]_vars

\* C28 witness: a blank prompt has been answered with 400 while a session
\* record is stored.
C28_Witness ==
    /\ last.op = "post_generate_scene"
    /\ last.query = "  "
    /\ last.status = 400
    /\ Len(collections["sessions"]) >= 1

\* C29: roll_dice on a notation XdY[+/-Z] (read without the whitespace around
\* it and without regard to case) with 1 <= X <= 100, X being 1 when left out,
\* and 2 <= Y <= 1000 returns error None, exactly X rolls each between 1 and Y,
\* the modifier Z (0 when absent) and a total equal to the sum of the rolls
\* plus Z; on every other input it returns a non-empty error, no rolls, total 0
\* and modifier 0.
C29_RollDice ==
    last.op = "roll_dice" =>
        LET p == last.parts
            r == last.result
            X == CASE p.x = <<>> -> 1 [] p.x = <<"0">> -> 0 [] p.x = <<"1">> -> 1 [] p.x = <<"2">> -> 2
                   [] p.x = <<"0", "1">> -> 1 [] p.x = <<"1", "0", "0">> -> 100 [] p.x = <<"1", "0", "1">> -> 101
            Y == CASE p.y = <<>> -> 0 [] p.y = <<"1">> -> 1 [] p.y = <<"2">> -> 2 [] p.y = <<"3">> -> 3
                   [] p.y = <<"1", "0", "0", "0">> -> 1000 [] p.y = <<"1", "0", "0", "1">> -> 1001
            Z == CASE p.z = <<"+", "1">> -> 1 [] p.z = <<"-", "2">> -> 0 - 2 [] OTHER -> 0
            notation == /\ p.sep \in {<<"d">>, <<"D">>}
                        /\ p.y # <<>>
                        /\ p.z \in {<<>>, <<"+", "1">>, <<"-", "2">>, <<"-", "0">>}
        IN  IF notation /\ X \in 1..100 /\ Y \in 2..1000
            THEN /\ r.error = None
                 /\ Len(r.rolls) = X
                 /\ \A i \in 1..Len(r.rolls) : r.rolls[i] \in 1..Y
                 /\ r.modifier = Z
                 /\ r.total = SumRolls(r.rolls) + Z
            ELSE /\ r.error \notin {None, ""}
                 /\ r.rolls = <<>>
                 /\ r.total = 0
                 /\ r.modifier = 0

\* C29 witness: a hundred dice with a thousand sides and the modifier -2 have
\* been rolled, written with a capital D and whitespace around the notation.
C29_Witness ==
    /\ last.op = "roll_dice"
    /\ last.parts.sep = <<"D">> /\ last.parts.lpad # <<>>
    /\ last.result.error = None
    /\ Len(last.result.rolls) = 100
    /\ \E i \in 1..100 : last.result.rolls[i] = 1000
    /\ last.result.modifier = 0 - 2

\* C30: in the table init_db has created, save_game returns an id that no
\* earlier save returned; load_game of an id a save returned gives the session
\* name and the story log of that save, whatever was saved afterwards; and
\* load_game of an id no save returned gives None.
C30_SaveLoadGames ==
    /\ \A i, j \in 1..Len(last.saves) : i # j => last.saves[i].id # last.saves[j].id
    /\ (last.op = "load_game" /\ db.exists) =>
          /\ last.outcome = "ok"
          /\ IF \E i \in 1..Len(last.saves) : last.saves[i].id = last.session_id
             THEN \A i \in 1..Len(last.saves) :
                     last.saves[i].id = last.session_id =>
                         /\ last.found
                         /\ last.row.id = last.session_id
                         /\ last.row.session_name = last.saves[i].session_name
                         /\ last.row.story_log = last.saves[i].story_log
             ELSE ~last.found

\* C30 witness: the first of three saved games has been loaded after the two
\* later saves, of which one has another session name and story log.
C30_Witness ==
    /\ last.op = "load_game"
    /\ Len(last.saves) = 3
    /\ last.session_id = last.saves[1].id
    /\ last.found
    /\ last.row.session_name = "g1" /\ last.row.story_log = "log"
    /\ last.saves[3].session_name = "g2" /\ last.saves[3].story_log = ""

====
